---------------------------- MODULE Spec2Model ----------------------------
(***************************************************************************)
(* TextCleaner: the cleaning engine (normalizer, distance evaluator, spell *)
(* corrector, edit differencer, edit replayer), the command line runs      *)
(* clean / validate / reproduce built on it, and the window that starts    *)
(* them on a worker thread.                                                *)
(*                                                                         *)
(* A text is a sequence of characters; a character is a one-element name   *)
(* ("e", "E", "'", "\n", or "U+00E9" for a code point outside ASCII).      *)
(* Python offsets are 0-based and TLA+ sequences 1-based: a Python slice   *)
(* s[i:j] is PySlice(s, i, j).                                             *)
(***************************************************************************)
EXTENDS Integers, Sequences, FiniteSets, TLC

VARIABLES
  pc,         \* where the run of a function stands: "start", then what ran
  args,       \* the arguments the function is called with
  ret,        \* what it returned or raised
  mode,       \* --mode of the command line runs: "csv" or "dir"
  input,      \* the current input: row index or file -> raw text
  changelog,  \* the changelog JSON: <<>> before a clean run, else <<payload>>
  cleanOut,   \* what clean wrote: row index or file -> text
  reproOut,   \* what reproduce wrote: row index or file -> text
  lastRun,    \* the outcome of the last command
  run_button, \* the window's Run button is enabled
  workers,    \* the RunWorker threads started so far, in order
  posted,     \* signals queued for the window's thread, oldest first
  dialogs     \* the modal message boxes open, the last on top

funVars == <<pc, args, ret>>

cliVars == <<mode, input, changelog, cleanOut, reproOut, lastRun>>

guiVars == <<run_button, workers, posted, dialogs>>

vars ==
  <<pc, args, ret, mode, input, changelog, cleanOut, reproOut, lastRun,
    run_button, workers, posted, dialogs>>

(***************************************************************************)
(* Bounds of the model.                                                    *)
(***************************************************************************)
MaxDistLen == 3

MaxCaseLen == 3

MaxNormLen == 3

MaxDiffLen == 3

MaxReplayLen == 2

MaxEdits == 2

MaxCleanLen == 3

MaxItems == 2

MaxSummaryTokens == 9

MaxRuns == 3

(***************************************************************************)
(* Python built-ins.                                                       *)
(***************************************************************************)
Min2(x, y) == IF x <= y THEN x ELSE y

Min3(x, y, z) == Min2(x, Min2(y, z))

\* A slice bound as Python clamps it: a negative index counts from the end.
PyIndex(n, i) ==
  LET k == IF i < 0 THEN i + n ELSE i
  IN  IF k < 0 THEN 0 ELSE IF k > n THEN n ELSE k

\* s[i:j]
PySlice(s, i, j) ==
  LET lo == PyIndex(Len(s), i)
      hi == PyIndex(Len(s), j)
  IN  IF lo < hi THEN SubSeq(s, lo + 1, hi) ELSE <<>>

\* s[i:]
PySliceFrom(s, i) == SubSeq(s, PyIndex(Len(s), i) + 1, Len(s))

\* All texts over alphabet A of length at most n.
TextsUpTo(A, n) == UNION {[1..k -> A] : k \in 0..n}

(***************************************************************************)
(* _edit_distance (cleaner.py 19-35): two rolling rows.  A row is the      *)
(* Python list prev / current, so row[j + 1] here is prev[j] there.        *)
(***************************************************************************)
RECURSIVE BuildRowSubstFree(_, _, _, _)
BuildRowSubstFree(current, prev, char_a, b) ==
  IF Len(current) = Len(b) + 1 THEN current
  ELSE LET j == Len(current)
           insert_cost == current[j] + 1
           delete_cost == prev[j + 1] + 1
           subst_cost == prev[j]
       IN  BuildRowSubstFree(Append(current, Min3(insert_cost, delete_cost, subst_cost)),
                             prev, char_a, b)

\* The inner loop, lines 29-33: current grows from [i] to len(b) + 1 entries.
RECURSIVE BuildRow(_, _, _, _)
BuildRow(current, prev, char_a, b) ==
  IF Len(current) = Len(b) + 1 THEN current
  ELSE LET j == Len(current)
           insert_cost == current[j] + 1
           delete_cost == prev[j + 1] + 1
           subst_cost == prev[j] + (IF char_a # b[j] THEN 1 ELSE 0)
       IN  BuildRow(Append(current, Min3(insert_cost, delete_cost, subst_cost)),
                    prev, char_a, b)

\* The outer loop, lines 27-34: the row after the first i characters of a.
RECURSIVE DistRows(_, _, _)
DistRows(a, b, i) ==
  IF i = 0 THEN [j \in 1..(Len(b) + 1) |-> j - 1]
  ELSE BuildRow(<<i>>, DistRows(a, b, i - 1), a[i], b)

edit_distance(a, b) ==
  IF a = b THEN 0
  ELSE IF a = <<>> THEN Len(b)
  ELSE IF b = <<>> THEN Len(a)
  ELSE DistRows(a, b, Len(a))[Len(b) + 1]

(***************************************************************************)
(* Characters.  The tables give, for the characters the model uses, what   *)
(* Python's str methods and unicodedata report for them.                   *)
(***************************************************************************)
\* <<uppercase, lowercase>> of every cased character.
CasePairs ==
  { <<"A", "a">>, <<"E", "e">>, <<"H", "h">>, <<"S", "s">>, <<"T", "t">>,
    <<"U+00C9", "U+00E9">> }

\* [A-Za-z] of WORD_RE (cleaner.py 12): ASCII letters only.
AsciiLetters == {"A", "a", "E", "e", "H", "h", "S", "s", "T", "t"}

Apostrophe == "'"

\* Characters the ascii codec encodes.
AsciiChars == AsciiLetters \cup {Apostrophe, " ", ".", "\n", "\t", "\r", "U+0001"}

\* Characters the latin-1 codec encodes.
Latin1Chars == AsciiChars \cup {"U+00C9", "U+00E9", "U+00A0"}

\* unicodedata.category(ch)[0] == "C": controls (Cc) and formats (Cf).
CategoryC == {"\n", "\t", "\r", "U+0001", "U+200B"}

\* Canonical combining class: U+0301 COMBINING ACUTE ACCENT is 230.
CombiningClass(ch) == IF ch = "U+0301" THEN 230 ELSE 0

\* Full compatibility decomposition of one character.
Decomposition(ch) ==
  CASE ch = "U+00E9" -> <<"e", "U+0301">>
    [] ch = "U+00C9" -> <<"E", "U+0301">>
    [] ch = "U+00A0" -> <<" ">>
    [] OTHER -> <<ch>>

\* Primary composites: <<first, last, composite>>.
Composites == { <<"e", "U+0301", "U+00E9">>, <<"E", "U+0301", "U+00C9">> }

IsUpperCh(ch) == \E p \in CasePairs : p[1] = ch

IsLowerCh(ch) == \E p \in CasePairs : p[2] = ch

UpperCh(ch) == IF IsLowerCh(ch) THEN (CHOOSE p \in CasePairs : p[2] = ch)[1] ELSE ch

LowerCh(ch) == IF IsUpperCh(ch) THEN (CHOOSE p \in CasePairs : p[1] = ch)[2] ELSE ch

(***************************************************************************)
(* Python str methods used by _match_case and clean.                       *)
(***************************************************************************)
str_upper(s) == [i \in 1..Len(s) |-> UpperCh(s[i])]

str_lower(s) == [i \in 1..Len(s) |-> LowerCh(s[i])]

\* First character uppercased, the rest lowercased.
str_capitalize(s) ==
  [i \in 1..Len(s) |-> IF i = 1 THEN UpperCh(s[i]) ELSE LowerCh(s[i])]

\* No lowercase character and at least one cased character.
str_isupper(s) ==
  /\ \A i \in 1..Len(s) : ~IsLowerCh(s[i])
  /\ \E i \in 1..Len(s) : IsUpperCh(s[i])

\* No uppercase character and at least one cased character.
str_islower(s) ==
  /\ \A i \in 1..Len(s) : ~IsUpperCh(s[i])
  /\ \E i \in 1..Len(s) : IsLowerCh(s[i])

\* Uppercase characters follow only uncased ones (or start the string),
\* lowercase characters follow only cased ones, and some character is cased.
str_istitle(s) ==
  /\ \E i \in 1..Len(s) : IsUpperCh(s[i]) \/ IsLowerCh(s[i])
  /\ \A i \in 1..Len(s) :
       LET previous_is_cased == i > 1 /\ (IsUpperCh(s[i - 1]) \/ IsLowerCh(s[i - 1]))
       IN  /\ IsUpperCh(s[i]) => ~previous_is_cased
           /\ IsLowerCh(s[i]) => previous_is_cased

(***************************************************************************)
(* _match_case (cleaner.py 38-43).                                         *)
(***************************************************************************)
match_case(source, suggestion) ==
  IF str_isupper(source) THEN str_upper(suggestion)
  ELSE IF str_istitle(source) THEN str_capitalize(suggestion)
  ELSE IF str_islower(source) THEN str_lower(suggestion)
  ELSE suggestion

(***************************************************************************)
(* normalize_charset (cleaner.py 46-54).                                   *)
(***************************************************************************)
\* str.replace(old, new) for a one-character new.
RECURSIVE str_replace(_, _, _)
str_replace(s, old, new) ==
  IF Len(s) < Len(old) THEN s
  ELSE IF SubSeq(s, 1, Len(old)) = old
       THEN <<new>> \o str_replace(SubSeq(s, Len(old) + 1, Len(s)), old, new)
       ELSE <<Head(s)>> \o str_replace(Tail(s), old, new)

RECURSIVE Decompose(_)
Decompose(s) ==
  IF s = <<>> THEN <<>> ELSE Decomposition(Head(s)) \o Decompose(Tail(s))

IsFirst(ch) == \E c \in Composites : c[1] = ch

HasComposite(first, last) == \E c \in Composites : c[1] = first /\ c[2] = last

Composite(first, last) == (CHOOSE c \in Composites : c[1] = first /\ c[2] = last)[3]

\* Canonical composition as unicodedata.normalize does it: from a character
\* that starts a composite, look ahead over the following characters (comb is
\* the class of the last one passed over, passed those not combined, rest
\* those still to inspect); a character combines unless it is blocked.
RECURSIVE Compose(_)
RECURSIVE ComposeFrom(_, _, _, _)
ComposeFrom(code, comb, passed, rest) ==
  IF rest = <<>> THEN <<code>> \o Compose(passed)
  ELSE LET code1 == Head(rest)
           comb1 == CombiningClass(code1)
       IN  IF comb # 0 /\ comb1 = 0 THEN <<code>> \o Compose(passed \o rest)
           ELSE IF comb # 0 /\ comb >= comb1
                THEN ComposeFrom(code, comb, Append(passed, code1), Tail(rest))
           ELSE IF ~HasComposite(code, code1)
                THEN IF comb1 = 0 THEN <<code>> \o Compose(passed \o rest)
                     ELSE ComposeFrom(code, comb1, Append(passed, code1), Tail(rest))
           ELSE IF ~IsFirst(Composite(code, code1))
                THEN <<Composite(code, code1)>> \o Compose(passed \o Tail(rest))
           ELSE ComposeFrom(Composite(code, code1), comb, passed, Tail(rest))

Compose(s) ==
  IF s = <<>> THEN <<>>
  ELSE IF ~IsFirst(Head(s)) THEN <<Head(s)>> \o Compose(Tail(s))
  ELSE ComposeFrom(Head(s), 0, <<>>, Tail(s))

\* unicodedata.normalize("NFKC", s): decompose, then compose.  Canonical
\* reordering is the identity here: one combining class only is nonzero.
NFKC(s) == Compose(Decompose(s))

\* The code points line 48 keeps: "\n", "\t" and everything outside group C.
Kept(ch) == ch = "\n" \/ ch = "\t" \/ ch \notin CategoryC

\* s.encode(codec, errors="ignore").decode(codec): unencodable characters go.
Narrow(s, codec) ==
  IF codec = "latin-1" THEN SelectSeq(s, LAMBDA ch : ch \in Latin1Chars)
  ELSE IF codec = "ascii" THEN SelectSeq(s, LAMBDA ch : ch \in AsciiChars)
  ELSE s

\* A result: the value returned, or the exception raised.
Returned(v) == [err |-> "none", val |-> v]

Raised(e) == [err |-> e, val |-> <<>>]

\* As normalize_charset, an unrecognized charset treated as utf-8.
normalize_charset_default_utf8(text, target_charset) ==
  LET unified == str_replace(str_replace(text, <<"\r", "\n">>, "\n"), <<"\r">>, "\n")
      normalized == SelectSeq(NFKC(unified), LAMBDA ch : Kept(ch))
  IN  IF target_charset \in {"latin-1", "ascii"}
      THEN Returned(Narrow(normalized, target_charset))
      ELSE Returned(normalized)

\* As normalize_charset, narrowing to the charset before NFKC and stripping.
normalize_charset_narrow_first(text, target_charset) ==
  LET unified == str_replace(str_replace(text, <<"\r", "\n">>, "\n"), <<"\r">>, "\n")
      narrowed == Narrow(unified, target_charset)
      normalized == SelectSeq(NFKC(narrowed), LAMBDA ch : Kept(ch))
  IN  IF target_charset \in {"utf-8", "latin-1", "ascii"} THEN Returned(normalized)
      ELSE Raised("ValueError")

normalize_charset(text, target_charset) ==
  LET unified == str_replace(str_replace(text, <<"\r", "\n">>, "\n"), <<"\r">>, "\n")
      normalized == SelectSeq(NFKC(unified), LAMBDA ch : Kept(ch))
  IN  IF target_charset = "utf-8" THEN Returned(normalized)
      ELSE IF target_charset \in {"latin-1", "ascii"}
           THEN Returned(Narrow(normalized, target_charset))
      ELSE Raised("ValueError")

(***************************************************************************)
(* build_edits (cleaner.py 57-70).  SequenceMatcher(a, b, autojunk=False)  *)
(* has no junk: find_longest_match returns the longest block common to     *)
(* a[alo:ahi] and b[blo:bhi], of those the one starting earliest in a, and *)
(* of those the one starting earliest in b.  Offsets are Python's.         *)
(***************************************************************************)
IsMatch(a, b, i, j, k) == \A d \in 1..k : a[i + d] = b[j + d]

FindLongestMatch(a, b, alo, ahi, blo, bhi) ==
  LET Blocks(k) == {m \in (alo..(ahi - k)) \X (blo..(bhi - k)) : IsMatch(a, b, m[1], m[2], k)}
      sizes == {k \in 1..Min2(ahi - alo, bhi - blo) : Blocks(k) # {}}
  IN  IF sizes = {} THEN <<alo, blo, 0>>
      ELSE LET bestsize == CHOOSE k \in sizes : \A k2 \in sizes : k2 <= k
               best == CHOOSE m \in Blocks(bestsize) :
                         \A m2 \in Blocks(bestsize) :
                           m[1] < m2[1] \/ (m[1] = m2[1] /\ m[2] <= m2[2])
           IN  <<best[1], best[2], bestsize>>

\* get_matching_blocks before its sentinel: the longest match, then the
\* matches to its left and to its right, in ascending order.
RECURSIVE MatchingBlocks(_, _, _, _, _, _)
MatchingBlocks(a, b, alo, ahi, blo, bhi) ==
  LET x == FindLongestMatch(a, b, alo, ahi, blo, bhi)
      i == x[1]
      j == x[2]
      k == x[3]
  IN  IF k = 0 THEN <<>>
      ELSE (IF alo < i /\ blo < j THEN MatchingBlocks(a, b, alo, i, blo, j) ELSE <<>>)
           \o <<x>>
           \o (IF i + k < ahi /\ j + k < bhi
               THEN MatchingBlocks(a, b, i + k, ahi, j + k, bhi) ELSE <<>>)

\* get_matching_blocks collapses adjacent blocks into one.
RECURSIVE Collapse(_, _)
Collapse(cur, blocks) ==
  IF blocks = <<>> THEN (IF cur[3] # 0 THEN <<cur>> ELSE <<>>)
  ELSE LET nxt == Head(blocks)
       IN  IF cur[1] + cur[3] = nxt[1] /\ cur[2] + cur[3] = nxt[2]
           THEN Collapse(<<cur[1], cur[2], cur[3] + nxt[3]>>, Tail(blocks))
           ELSE (IF cur[3] # 0 THEN <<cur>> ELSE <<>>) \o Collapse(nxt, Tail(blocks))

GetMatchingBlocks(a, b) ==
  Collapse(<<0, 0, 0>>, MatchingBlocks(a, b, 0, Len(a), 0, Len(b)))
    \o << <<Len(a), Len(b), 0>> >>

\* get_opcodes: <<tag, i1, i2, j1, j2>> for the gap before each block, then
\* the block itself.
RECURSIVE Opcodes(_, _, _)
Opcodes(i, j, blocks) ==
  IF blocks = <<>> THEN <<>>
  ELSE LET ai == Head(blocks)[1]
           bj == Head(blocks)[2]
           size == Head(blocks)[3]
           tag == IF i < ai /\ j < bj THEN "replace"
                  ELSE IF i < ai THEN "delete"
                  ELSE IF j < bj THEN "insert"
                  ELSE ""
       IN  (IF tag # "" THEN << <<tag, i, ai, j, bj>> >> ELSE <<>>)
           \o (IF size # 0 THEN << <<"equal", ai, ai + size, bj, bj + size>> >> ELSE <<>>)
           \o Opcodes(ai + size, bj + size, Tail(blocks))

GetOpcodes(a, b) == Opcodes(0, 0, GetMatchingBlocks(a, b))

Edit(start, end, replacement) ==
  [start |-> start, end |-> end, replacement |-> replacement]

\* As EditsOf, with the offsets of the cleaned side of each opcode.
RECURSIVE EditsOfCleanedOffsets(_, _)
EditsOfCleanedOffsets(opcodes, cleaned) ==
  IF opcodes = <<>> THEN <<>>
  ELSE LET op == Head(opcodes)
       IN  (IF op[1] = "equal" THEN <<>>
            ELSE <<Edit(op[4], op[5], PySlice(cleaned, op[4], op[5]))>>)
           \o EditsOfCleanedOffsets(Tail(opcodes), cleaned)

\* Lines 60-69: one edit per opcode that is not "equal".
RECURSIVE EditsOf(_, _)
EditsOf(opcodes, cleaned) ==
  IF opcodes = <<>> THEN <<>>
  ELSE LET op == Head(opcodes)
       IN  (IF op[1] = "equal" THEN <<>>
            ELSE <<Edit(op[2], op[3], PySlice(cleaned, op[4], op[5]))>>)
           \o EditsOf(Tail(opcodes), cleaned)

build_edits(original, cleaned) == EditsOf(GetOpcodes(original, cleaned), cleaned)

(***************************************************************************)
(* apply_edits (cleaner.py 73-86): the loop over the edits, with its       *)
(* cursor and the pieces appended so far.                                  *)
(***************************************************************************)
\* As ApplyLoop, without the guard of lines 80-81.
RECURSIVE ApplyLoopUnguarded(_, _, _, _)
ApplyLoopUnguarded(original, edits, cursor, result) ==
  IF edits = <<>> THEN Returned(result \o PySliceFrom(original, cursor))
  ELSE LET edit == Head(edits)
       IN  ApplyLoopUnguarded(original, Tail(edits), edit.end,
                              result \o PySlice(original, cursor, edit.start)
                                     \o edit.replacement)

\* As ApplyLoop, without the tail that line 85 appends.
RECURSIVE ApplyLoopNoTail(_, _, _, _)
ApplyLoopNoTail(original, edits, cursor, result) ==
  IF edits = <<>> THEN Returned(result)
  ELSE LET edit == Head(edits)
       IN  IF edit.start < cursor THEN Raised("ValueError")
           ELSE ApplyLoopNoTail(original, Tail(edits), edit.end,
                                result \o PySlice(original, cursor, edit.start)
                                       \o edit.replacement)

RECURSIVE ApplyLoop(_, _, _, _)
ApplyLoop(original, edits, cursor, result) ==
  IF edits = <<>> THEN Returned(result \o PySliceFrom(original, cursor))
  ELSE LET edit == Head(edits)
       IN  IF edit.start < cursor THEN Raised("ValueError")
           ELSE ApplyLoop(original, Tail(edits), edit.end,
                          result \o PySlice(original, cursor, edit.start)
                                 \o edit.replacement)

apply_edits(original, edits) == ApplyLoop(original, edits, 0, <<>>)

\* md5_text (cleaner.py 15-16): the digest of a text, taken as collision-free.
md5_text(text) == <<"md5", text>>

(***************************************************************************)
(* TextCleaner.clean (cleaner.py 111-154).                                 *)
(***************************************************************************)
\* most_common(8), cleaner.py 142.
TopN == 8

WordChars == AsciiLetters \cup {Apostrophe}

\* The end of the run of word characters that holds offset q - 1.
RECURSIVE RunEnd(_, _)
RunEnd(s, q) == IF q < Len(s) /\ s[q + 1] \in WordChars THEN RunEnd(s, q + 1) ELSE q

\* As WordSpans, for the pattern [A-Za-z][A-Za-z']*: one letter is a token.
RECURSIVE WordSpansOneLetter(_, _)
WordSpansOneLetter(s, p) ==
  IF p >= Len(s) THEN <<>>
  ELSE IF s[p + 1] \in AsciiLetters
       THEN <<<<p, RunEnd(s, p + 1)>>>> \o WordSpansOneLetter(s, RunEnd(s, p + 1))
       ELSE WordSpansOneLetter(s, p + 1)

\* WORD_RE.finditer(s) from offset p: the spans <<start, end>> of the matches
\* of [A-Za-z][A-Za-z']+, leftmost first, each as long as it can be.
RECURSIVE WordSpans(_, _)
WordSpans(s, p) ==
  IF p + 1 >= Len(s) THEN <<>>
  ELSE IF s[p + 1] \in AsciiLetters /\ s[p + 2] \in WordChars
       THEN <<<<p, RunEnd(s, p + 2)>>>> \o WordSpans(s, RunEnd(s, p + 2))
       ELSE WordSpans(s, p + 1)

\* What the dictionary says of one token: check(token), and suggest(token).
Answer(valid, suggestions) == [valid |-> valid, suggestions |-> suggestions]

\* As Replacement, accepting only a distance below the maximum.
ReplacementStrictlyBelow(token, answer, max_suggestion_distance) ==
  IF answer.valid \/ answer.suggestions = <<>> THEN token
  ELSE LET candidate == match_case(token, answer.suggestions[1])
           distance == edit_distance(str_lower(token), str_lower(candidate))
       IN  IF distance < max_suggestion_distance THEN candidate ELSE token

\* Lines 122-130: the replacement of one token given the dictionary's answer.
Replacement(token, answer, max_suggestion_distance) ==
  IF answer.valid \/ answer.suggestions = <<>> THEN token
  ELSE LET candidate == match_case(token, answer.suggestions[1])
           distance == edit_distance(str_lower(token), str_lower(candidate))
       IN  IF distance <= max_suggestion_distance THEN candidate ELSE token

\* replacement_counter[(token, replacement)] += 1: a Counter keeps its keys in
\* the order of their first insertion.
Increment(counter, from, to) ==
  IF \E i \in 1..Len(counter) : counter[i].from = from /\ counter[i].to = to
  THEN [i \in 1..Len(counter) |->
          IF counter[i].from = from /\ counter[i].to = to
          THEN [counter[i] EXCEPT !.count = @ + 1] ELSE counter[i]]
  ELSE Append(counter, [from |-> from, to |-> to, count |-> 1])

\* The loop of lines 119-135 over the matches, answers[k] being the
\* dictionary's answer for the k-th token; then lines 136-137.
RECURSIVE SpellLoop(_, _, _, _, _, _, _)
SpellLoop(normalized, spans, answers, max_distance, cursor, pieces, counter) ==
  IF spans = <<>>
  THEN [cleaned |-> pieces \o PySliceFrom(normalized, cursor), counter |-> counter]
  ELSE LET start == Head(spans)[1]
           end == Head(spans)[2]
           token == PySlice(normalized, start, end)
           replacement == Replacement(token, Head(answers), max_distance)
       IN  SpellLoop(normalized, Tail(spans), Tail(answers), max_distance, end,
                     pieces \o PySlice(normalized, cursor, start) \o replacement,
                     IF replacement # token THEN Increment(counter, token, replacement)
                     ELSE counter)

\* As MostCommon, listing every key of the counter.
RECURSIVE MostCommonUncapped(_, _)
MostCommonUncapped(counter, n) ==
  IF counter = <<>> THEN <<>>
  ELSE LET top == CHOOSE i \in 1..Len(counter) :
                    \A k \in 1..Len(counter) :
                      \/ counter[k].count < counter[i].count
                      \/ (counter[k].count = counter[i].count /\ i <= k)
           others == [k \in 1..(Len(counter) - 1) |->
                        IF k < top THEN counter[k] ELSE counter[k + 1]]
       IN  <<counter[top]>> \o MostCommonUncapped(others, n)

\* Counter.most_common(n): by count, largest first; equal counts keep the
\* order of first insertion.
RECURSIVE MostCommon(_, _)
MostCommon(counter, n) ==
  IF n = 0 \/ counter = <<>> THEN <<>>
  ELSE LET top == CHOOSE i \in 1..Len(counter) :
                    \A k \in 1..Len(counter) :
                      \/ counter[k].count < counter[i].count
                      \/ (counter[k].count = counter[i].count /\ i <= k)
           others == [k \in 1..(Len(counter) - 1) |->
                        IF k < top THEN counter[k] ELSE counter[k + 1]]
       IN  <<counter[top]>> \o MostCommon(others, n - 1)

CleanerConfig(target_charset, spellcheck, max_suggestion_distance) ==
  [target_charset |-> target_charset, spellcheck |-> spellcheck,
   max_suggestion_distance |-> max_suggestion_distance]

\* The tokens clean asks the dictionary about, in order.
TokensOf(raw_text, config) ==
  LET n == normalize_charset(raw_text, config.target_charset)
  IN  IF n.err # "none" \/ ~config.spellcheck THEN <<>>
      ELSE [k \in 1..Len(WordSpans(n.val, 0)) |->
              PySlice(n.val, WordSpans(n.val, 0)[k][1], WordSpans(n.val, 0)[k][2])]

\* As clean, with changed telling whether normalization changed the text.
clean_changed_by_normalization(raw_text, config, answers) ==
  LET n == normalize_charset(raw_text, config.target_charset)
  IN  IF n.err # "none" THEN Raised(n.err)
      ELSE LET normalized == n.val
               spelled == IF config.spellcheck
                          THEN SpellLoop(normalized, WordSpans(normalized, 0), answers,
                                         config.max_suggestion_distance, 0, <<>>, <<>>)
                          ELSE [cleaned |-> normalized, counter |-> <<>>]
               cleaned == spelled.cleaned
               edits == build_edits(raw_text, cleaned)
           IN  Returned([cleaned_text |-> cleaned,
                         edits |-> edits,
                         input_md5 |-> md5_text(raw_text),
                         output_md5 |-> md5_text(cleaned),
                         changed |-> raw_text # normalized,
                         summary |-> [edit_count |-> Len(edits),
                                      top_replacements |->
                                        MostCommon(spelled.counter, TopN)]])

clean(raw_text, config, answers) ==
  LET n == normalize_charset(raw_text, config.target_charset)
  IN  IF n.err # "none" THEN Raised(n.err)
      ELSE LET normalized == n.val
               spelled == IF config.spellcheck
                          THEN SpellLoop(normalized, WordSpans(normalized, 0), answers,
                                         config.max_suggestion_distance, 0, <<>>, <<>>)
                          ELSE [cleaned |-> normalized, counter |-> <<>>]
               cleaned == spelled.cleaned
               edits == build_edits(raw_text, cleaned)
           IN  Returned([cleaned_text |-> cleaned,
                         edits |-> edits,
                         input_md5 |-> md5_text(raw_text),
                         output_md5 |-> md5_text(cleaned),
                         changed |-> raw_text # cleaned,
                         summary |-> [edit_count |-> Len(edits),
                                      top_replacements |->
                                        MostCommon(spelled.counter, TopN)]])

(***************************************************************************)
(* The functions of the cleaning engine, each run on bounded inputs.  No   *)
(* command line run happens in these specifications.                       *)
(***************************************************************************)
NoFile == <<>>

CliIdle ==
  /\ mode = "csv"
  /\ input = <<>>
  /\ changelog = NoFile
  /\ cleanOut = NoFile
  /\ reproOut = NoFile
  /\ lastRun = [cmd |-> "none"]

FunIdle == pc = "cli" /\ args = <<>> /\ ret = <<>>

\* The window as MainWindow.__init__ leaves it (gui.py 47-192): the Run
\* button enabled, no worker, nothing queued, no message box.
GuiIdle ==
  /\ run_button = TRUE
  /\ workers = <<>>
  /\ posted = <<>>
  /\ dialogs = <<>>

\* ---- _edit_distance ----
DistTexts == TextsUpTo({"a", "t"}, MaxDistLen)

InitDistance ==
  /\ pc = "start"
  /\ args \in [a : DistTexts, b : DistTexts, c : DistTexts]
  /\ ret = <<>>
  /\ CliIdle
  /\ GuiIdle

CallEditDistance ==
  /\ pc = "start"
  /\ pc' = "edit_distance"
  /\ ret' = edit_distance(args.a, args.b)
  /\ UNCHANGED <<args, cliVars, guiVars>>

SpecDistance == InitDistance /\ [][CallEditDistance]_vars

\* ---- _match_case ----
CaseAlphabet == {"T", "t", "E", "e", Apostrophe}

\* Tokens of WORD_RE: a letter, then letters or apostrophes; and the tokens
\* of the documented examples.
CaseTokens ==
  {s \in TextsUpTo(CaseAlphabet, MaxCaseLen) : Len(s) >= 2 /\ s[1] \in AsciiLetters}
    \cup {<<"T", "E", "H">>, <<"T", "e", "h">>, <<"t", "e", "h">>,
          <<"T", "e", "h", Apostrophe, "s">>}

CaseSuggestions ==
  {s \in TextsUpTo({"T", "e", Apostrophe}, MaxCaseLen) : Len(s) >= 2}
    \cup {<<"t", "h", "e">>, <<"t", "h", "e", Apostrophe, "s">>}

InitCase ==
  /\ pc = "start"
  /\ args \in [source : CaseTokens, suggestion : CaseSuggestions]
  /\ ret = <<>>
  /\ CliIdle
  /\ GuiIdle

CallMatchCase ==
  /\ pc = "start"
  /\ pc' = "match_case"
  /\ ret' = match_case(args.source, args.suggestion)
  /\ UNCHANGED <<args, cliVars, guiVars>>

SpecCase == InitCase /\ [][CallMatchCase]_vars

\* ---- normalize_charset ----
NormAlphabet == {"e", "\r", "\n", "\t", "U+0301", "U+00E9", "U+200B"}

NormTexts == TextsUpTo(NormAlphabet, MaxNormLen)

Charsets == {"utf-8", "latin-1", "ascii"}

\* Values of target_charset that are none of the three.
OtherCharsets == {"utf-16", "UTF-8", "latin1", ""}

InitNormalize ==
  /\ pc = "start"
  /\ args \in [text : NormTexts, target_charset : Charsets \cup OtherCharsets]
  /\ ret = <<>>
  /\ CliIdle
  /\ GuiIdle

\* normalize_charset(text, c)
CallNormalize ==
  /\ pc = "start"
  /\ pc' = "normalized"
  /\ ret' = <<normalize_charset(args.text, args.target_charset)>>
  /\ UNCHANGED <<args, cliVars, guiVars>>

\* normalize_charset(normalize_charset(text, c), c)
CallNormalizeAgain ==
  /\ pc = "normalized"
  /\ ret[1].err = "none"
  /\ pc' = "renormalized"
  /\ ret' = Append(ret, normalize_charset(ret[1].val, args.target_charset))
  /\ UNCHANGED <<args, cliVars, guiVars>>

NextNormalize == CallNormalize \/ CallNormalizeAgain

SpecNormalize == InitNormalize /\ [][NextNormalize]_vars

\* ---- build_edits and apply_edits ----
DiffTexts == TextsUpTo({"a", "t", "e"}, MaxDiffLen)

ReplayTexts == TextsUpTo({"a", "t"}, MaxReplayLen)

Offsets == (-1)..(MaxReplayLen + 1)

ReplayEdits == {Edit(o[1], o[2], <<"x">>) : o \in Offsets \X Offsets}

\* The overlapping edits of the documented example.
OverlapExample == <<Edit(0, 5, <<"x">>), Edit(3, 8, <<"y">>)>>

EditLists == UNION {[1..k -> ReplayEdits] : k \in 0..MaxEdits} \cup {OverlapExample}

InitEdits ==
  /\ pc = "start"
  /\ \/ args \in [call : {"build_edits"}, original : DiffTexts, cleaned : DiffTexts]
     \/ args \in [call : {"apply_edits"}, original : ReplayTexts, edits : EditLists]
  /\ ret = <<>>
  /\ CliIdle
  /\ GuiIdle

\* build_edits(original, cleaned)
CallBuildEdits ==
  /\ pc = "start"
  /\ args.call = "build_edits"
  /\ pc' = "built"
  /\ ret' = build_edits(args.original, args.cleaned)
  /\ UNCHANGED <<args, cliVars, guiVars>>

\* apply_edits(original, build_edits(original, cleaned))
CallApplyBuilt ==
  /\ pc = "built"
  /\ pc' = "replayed"
  /\ ret' = [edits |-> ret, replay |-> apply_edits(args.original, ret)]
  /\ UNCHANGED <<args, cliVars, guiVars>>

\* apply_edits(original, edits) on an edit list of any origin
CallApplyEdits ==
  /\ pc = "start"
  /\ args.call = "apply_edits"
  /\ pc' = "applied"
  /\ ret' = apply_edits(args.original, args.edits)
  /\ UNCHANGED <<args, cliVars, guiVars>>

NextEdits == CallBuildEdits \/ CallApplyBuilt \/ CallApplyEdits

SpecEdits == InitEdits /\ [][NextEdits]_vars

\* ---- TextCleaner.clean ----
CleanAlphabet == {"t", "e", "T", Apostrophe, " ", "\r", "U+0301"}

CleanTexts ==
  TextsUpTo(CleanAlphabet, MaxCleanLen)
    \cup {<<"t", "e", " ", "e", "t">>, <<"T", "t", "\r", "\n", "t", "t", "t">>}

MaxDistances == {1, 2}

Configs ==
  {CleanerConfig(c, s, d) : c \in Charsets, s \in BOOLEAN, d \in MaxDistances}

Candidates == {<<"t", "e">>, <<"e", "e">>, <<"e", "U+00E9">>}

\* check(token) is true, or false with zero, one or two suggestions.
Answers ==
  {Answer(TRUE, <<>>), Answer(FALSE, <<>>)}
    \cup {Answer(FALSE, <<c>>) : c \in Candidates}
    \cup {Answer(FALSE, <<c[1], c[2]>>) : c \in {x \in Candidates \X Candidates : x[1] # x[2]}}

InitClean ==
  /\ pc = "start"
  /\ args \in [raw_text : CleanTexts, config : Configs]
  /\ ret = <<>>
  /\ CliIdle
  /\ GuiIdle

\* clean(raw_text), the dictionary answering each token in any way.
CallClean ==
  /\ pc = "start"
  /\ \E answers \in [1..Len(TokensOf(args.raw_text, args.config)) -> Answers] :
       ret' = [answers |-> answers,
               result |-> clean(args.raw_text, args.config, answers),
               replay |-> <<>>]
  /\ pc' = "cleaned"
  /\ UNCHANGED <<args, cliVars, guiVars>>

\* apply_edits(raw_text, result["edits"])
CallReplay ==
  /\ pc = "cleaned"
  /\ ret.result.err = "none"
  /\ pc' = "replayed"
  /\ ret' = [ret EXCEPT !.replay = apply_edits(args.raw_text, ret.result.val.edits)]
  /\ UNCHANGED <<args, cliVars, guiVars>>

NextClean == CallClean \/ CallReplay

SpecClean == InitClean /\ [][NextClean]_vars

\* ---- TextCleaner.clean on texts of many tokens ----
\* The letters of the tokens below.
SummaryLetters == <<"t", "T", "e", "E">>

\* The k-th of the distinct two-letter tokens: tt, tT, te, tE, Tt, TT, ...
SummaryToken(k) ==
  <<SummaryLetters[((k - 1) \div 4) + 1], SummaryLetters[((k - 1) % 4) + 1]>>

\* The tokens 1..n, each followed by the separator, then token r once more.
RECURSIVE SummaryPrefix(_, _)
SummaryPrefix(n, sep) ==
  IF n = 0 THEN <<>> ELSE SummaryPrefix(n - 1, sep) \o SummaryToken(n) \o <<sep>>

SummaryText(n, r, sep) == SummaryPrefix(n, sep) \o SummaryToken(r)

SummaryTexts ==
  UNION {{SummaryText(n, r, sep) : r \in {1, n}, sep \in {" ", "\r"}} :
           n \in 1..MaxSummaryTokens}

SummaryConfigs == {CleanerConfig("utf-8", s, 2) : s \in BOOLEAN}

\* check(token) is true, or false with one suggestion two edits away.
SummaryAnswers == {Answer(TRUE, <<>>), Answer(FALSE, <<<<"a", "a">>>>)}

InitSummary ==
  /\ pc = "start"
  /\ args \in [raw_text : SummaryTexts, config : SummaryConfigs]
  /\ ret = <<>>
  /\ CliIdle
  /\ GuiIdle

\* clean(raw_text), the dictionary accepting or correcting each token.
CallCleanSummary ==
  /\ pc = "start"
  /\ \E answers \in [1..Len(TokensOf(args.raw_text, args.config)) -> SummaryAnswers] :
       ret' = [answers |-> answers,
               result |-> clean(args.raw_text, args.config, answers)]
  /\ pc' = "summarized"
  /\ UNCHANGED <<args, cliVars, guiVars>>

SpecSummary == InitSummary /\ [][CallCleanSummary]_vars

(***************************************************************************)
(* The command line runs (__main__.py).  An input is a CSV file, its rows  *)
(* numbered from 1, or a directory tree, its text files numbered in sorted *)
(* path order; input[k] is the raw text of row k or of file k.  A CSV has  *)
(* rows 1..n; a directory may hold any of the files.  The CSV has the text *)
(* column and not the cleaned column, and files decode the same way in     *)
(* every run (--input-encoding is not varied).                             *)
(*                                                                         *)
(* A session is one clean run into a fresh output and changelog, changes   *)
(* of the input by its owner after that run, then validate and reproduce   *)
(* runs in any number and order over the input as it then stands.          *)
(***************************************************************************)
Modes == {"csv", "dir"}

Keys == 1..MaxItems

\* "TT" holds a token, "T\r" a line ending to unify, clean leaves "t" alone.
CliTexts == {<<"T", "T">>, <<"T", "\r">>, <<"t">>}

Inputs(m) ==
  IF m = "csv" THEN UNION {[1..n -> CliTexts] : n \in 0..MaxItems}
  ELSE UNION {[S -> CliTexts] : S \in SUBSET Keys}

\* --max-suggestion-distance, default 2 (__main__.py 31).
DefaultMaxDistance == 2

CliConfigs ==
  {CleanerConfig(c, s, DefaultMaxDistance) : c \in {"utf-8", "ascii"}, s \in BOOLEAN}

\* The dictionary accepts a token, or rejects it and suggests "t\u00e9".
CliAnswers == {Answer(TRUE, <<>>), Answer(FALSE, <<<<"t", "U+00E9">>>>)}

\* As SortedKeys, in descending order.
RECURSIVE SortedKeysDescending(_)
SortedKeysDescending(S) ==
  IF S = {} THEN <<>>
  ELSE LET greatest == CHOOSE k \in S : \A k2 \in S : k2 <= k
       IN  <<greatest>> \o SortedKeysDescending(S \ {greatest})

\* enumerate(rows, start=1) and sorted files: the keys in ascending order.
RECURSIVE SortedKeys(_)
SortedKeys(S) ==
  IF S = {} THEN <<>>
  ELSE LET least == CHOOSE k \in S : \A k2 \in S : k <= k2
       IN  <<least>> \o SortedKeys(S \ {least})

\* write_text_file (io_ops.py 23-26): encode with errors="ignore".
FileWritten(text, output_charset) ==
  Narrow(text, IF output_charset = "utf-8" THEN "utf-8"
               ELSE IF output_charset = "latin-1" THEN "latin-1" ELSE "ascii")

\* One changelog item (__main__.py 87-97, 128-138); item_id is the row index
\* or the relative path.
Item(k, result) ==
  [item_id |-> k,
   input_md5 |-> result.input_md5,
   output_md5 |-> result.output_md5,
   changed |-> result.changed,
   edits |-> result.edits,
   summary |-> result.summary]

\* _clean_csv and _clean_dir: every item cleaned in order, answers[k] being
\* the dictionary's answers for the tokens of item k.
CleanRun(m, items, config, answers) ==
  LET keys == SortedKeys(DOMAIN items)
      result == [k \in DOMAIN items |-> clean(items[k], config, answers[k]).val]
  IN  [items |-> [i \in 1..Len(keys) |-> Item(keys[i], result[keys[i]])],
       output |-> [k \in DOMAIN items |->
                     IF m = "csv" THEN result[k].cleaned_text
                     ELSE FileWritten(result[k].cleaned_text, config.target_charset)]]

\* payload of _run_clean (__main__.py 157-171).
Payload(m, config, items) ==
  [mode |-> m,
   settings |-> [target_charset |-> config.target_charset,
                 spellcheck |-> config.spellcheck,
                 max_suggestion_distance |-> config.max_suggestion_distance],
   items |-> items]

\* {item["row_index"]: item ...}, {item["source_path"]: ...}: the last item
\* of a key wins.
ByKey(items) ==
  [k \in {items[i].item_id : i \in 1..Len(items)} |->
     items[CHOOSE i \in 1..Len(items) :
             items[i].item_id = k /\ \A j \in (i + 1)..Len(items) : items[j].item_id # k]]

\* _validate_csv (179-196): the number of rows whose digest differs from the
\* one recorded for their index; rows without an item are skipped.
ValidateCsv(rows, payload) ==
  LET expected == ByKey(payload.items)
  IN  Cardinality({k \in DOMAIN rows :
                     k \in DOMAIN expected /\ md5_text(rows[k]) # expected[k].input_md5})

\* _validate_dir (199-217): the number of recorded files that are missing or
\* whose digest differs.
ValidateDir(files, payload) ==
  LET expected == ByKey(payload.items)
  IN  Cardinality({k \in DOMAIN expected :
                     k \notin DOMAIN files \/ md5_text(files[k]) # expected[k].input_md5})

\* As ReproduceCsvLoop, writing the raw text of every row.
RECURSIVE ReproduceCsvLoopRaw(_, _, _, _, _)
ReproduceCsvLoopRaw(rows, by_row, strict_md5, row_index, output_rows) ==
  IF row_index > Len(rows) THEN [err |-> "none", rows |-> output_rows]
  ELSE ReproduceCsvLoopRaw(rows, by_row, strict_md5, row_index + 1,
                           Append(output_rows, rows[row_index]))

\* The loop of _reproduce_csv (240-252): the cleaned column of the rows so
\* far, or the exception that ends the run.
RECURSIVE ReproduceCsvLoop(_, _, _, _, _)
ReproduceCsvLoop(rows, by_row, strict_md5, row_index, output_rows) ==
  IF row_index > Len(rows) THEN [err |-> "none", rows |-> output_rows]
  ELSE LET raw_text == rows[row_index]
       IN  IF row_index \notin DOMAIN by_row
           THEN ReproduceCsvLoop(rows, by_row, strict_md5, row_index + 1,
                                 Append(output_rows, raw_text))
           ELSE IF strict_md5 /\ md5_text(raw_text) # by_row[row_index].input_md5
           THEN [err |-> "SystemExit", rows |-> output_rows]
           ELSE LET cleaned == apply_edits(raw_text, by_row[row_index].edits)
                IN  IF cleaned.err # "none" THEN [err |-> cleaned.err, rows |-> output_rows]
                    ELSE ReproduceCsvLoop(rows, by_row, strict_md5, row_index + 1,
                                          Append(output_rows, cleaned.val))

\* The loop of _reproduce_dir (263-274) from the i-th item on: the files
\* written so far (the texts as computed, before encoding), and the
\* exception that ends the run, if any.
RECURSIVE ReproduceDirLoop(_, _, _, _, _)
ReproduceDirLoop(files, items, strict_md5, i, written) ==
  IF i > Len(items) THEN [err |-> "none", files |-> written]
  ELSE LET relative == items[i].item_id
       IN  IF relative \notin DOMAIN files THEN [err |-> "SystemExit", files |-> written]
           ELSE IF strict_md5 /\ md5_text(files[relative]) # items[i].input_md5
           THEN [err |-> "SystemExit", files |-> written]
           ELSE LET cleaned == apply_edits(files[relative], items[i].edits)
                IN  IF cleaned.err # "none" THEN [err |-> cleaned.err, files |-> written]
                    ELSE ReproduceDirLoop(files, items, strict_md5, i + 1,
                           [k \in DOMAIN written \cup {relative} |->
                              IF k = relative THEN cleaned.val ELSE written[k]])

\* f overwritten by g where g is defined.
Overwrite(f, g) ==
  [k \in DOMAIN f \cup DOMAIN g |-> IF k \in DOMAIN g THEN g[k] ELSE f[k]]

InitCli ==
  /\ FunIdle
  /\ GuiIdle
  /\ mode \in Modes
  /\ input \in Inputs(mode)
  /\ changelog = NoFile
  /\ cleanOut = NoFile
  /\ reproOut = NoFile
  /\ lastRun = [cmd |-> "none"]

\* textcleaner clean (_run_clean, 142-176)
RunClean ==
  /\ changelog = NoFile
  /\ \E config \in CliConfigs :
       \E answers \in [DOMAIN input -> UNION {[1..n -> CliAnswers] : n \in 0..1}] :
         /\ \A k \in DOMAIN input : Len(answers[k]) = Len(TokensOf(input[k], config))
         /\ LET run == CleanRun(mode, input, config, answers)
            IN  /\ changelog' = <<Payload(mode, config, run.items)>>
                /\ cleanOut' = IF mode = "dir" /\ DOMAIN input = {} THEN NoFile
                               ELSE <<run.output>>
                /\ lastRun' = [cmd |-> "clean", code |-> 0]
  /\ UNCHANGED <<mode, input, reproOut, funVars, guiVars>>

\* The owner of the input rewrites one row or file.
ChangeItem ==
  /\ lastRun.cmd = "clean"
  /\ \E k \in DOMAIN input : \E text \in CliTexts \ {input[k]} :
       input' = [input EXCEPT ![k] = text]
  /\ UNCHANGED <<mode, changelog, cleanOut, reproOut, lastRun, funVars, guiVars>>

\* The owner of the input removes one row (the rows after it move up) or
\* one file.
RemoveItem ==
  /\ lastRun.cmd = "clean"
  /\ \E k \in DOMAIN input :
       input' = IF mode = "csv"
                THEN [i \in 1..(Len(input) - 1) |-> IF i < k THEN input[i] ELSE input[i + 1]]
                ELSE [i \in DOMAIN input \ {k} |-> input[i]]
  /\ UNCHANGED <<mode, changelog, cleanOut, reproOut, lastRun, funVars, guiVars>>

\* The owner of the input appends a row or adds a file.
AddItem ==
  /\ lastRun.cmd = "clean"
  /\ \E k \in Keys \ DOMAIN input : \E text \in CliTexts :
       /\ mode = "csv" => k = Len(input) + 1
       /\ input' = [i \in DOMAIN input \cup {k} |-> IF i = k THEN text ELSE input[i]]
  /\ UNCHANGED <<mode, changelog, cleanOut, reproOut, lastRun, funVars, guiVars>>

\* textcleaner validate (_run_validate, 220-227)
RunValidate ==
  /\ changelog # NoFile
  /\ LET payload == changelog[1]
         mismatches == IF mode = "csv" THEN ValidateCsv(input, payload)
                       ELSE ValidateDir(input, payload)
     IN  lastRun' = [cmd |-> "validate",
                     code |-> IF mismatches # 0 THEN 1 ELSE 0,
                     mismatches |-> mismatches]
  /\ UNCHANGED <<mode, input, changelog, cleanOut, reproOut, funVars, guiVars>>

\* textcleaner reproduce (_run_reproduce, 279-290), --strict-md5 or
\* --no-strict-md5.  An exception ends the run with exit code 1: the CSV is
\* written after the loop, each file inside it.
RunReproduce ==
  /\ changelog # NoFile
  /\ \E strict_md5 \in BOOLEAN :
       LET payload == changelog[1]
       IN  \/ /\ mode = "csv"
              /\ LET run == ReproduceCsvLoop(input, ByKey(payload.items), strict_md5, 1, <<>>)
                 IN  /\ reproOut' = IF run.err = "none" THEN <<run.rows>> ELSE reproOut
                     /\ lastRun' = [cmd |-> "reproduce", strict_md5 |-> strict_md5,
                                    code |-> IF run.err = "none" THEN 0 ELSE 1,
                                    err |-> run.err,
                                    cleaned |-> run.rows,
                                    written |-> IF run.err = "none" THEN DOMAIN run.rows
                                                ELSE {}]
           \/ /\ mode = "dir"
              /\ LET run == ReproduceDirLoop(input, payload.items, strict_md5, 1, <<>>)
                     files == [k \in DOMAIN run.files |->
                                 FileWritten(run.files[k], payload.settings.target_charset)]
                 IN  /\ reproOut' = IF DOMAIN files = {} THEN reproOut
                                    ELSE IF reproOut = NoFile THEN <<files>>
                                    ELSE <<Overwrite(reproOut[1], files)>>
                     /\ lastRun' = [cmd |-> "reproduce", strict_md5 |-> strict_md5,
                                    code |-> IF run.err = "none" THEN 0 ELSE 1,
                                    err |-> run.err,
                                    cleaned |-> run.files,
                                    written |-> DOMAIN files]
  /\ UNCHANGED <<mode, input, changelog, cleanOut, funVars, guiVars>>

Next == RunClean \/ ChangeItem \/ RemoveItem \/ AddItem \/ RunValidate \/ RunReproduce

Spec == InitCli /\ [][Next]_vars

(***************************************************************************)
(* The window (gui.py).  The window's thread runs the handlers _on_run,    *)
(* _on_done and _on_fail, one at a time, from its event loop.  A RunWorker *)
(* is a QThread: start() makes it run RunWorker.run on a thread of its     *)
(* own; the signal run emits is queued for the window's thread, which      *)
(* calls the connected handler later; the thread is running until run has  *)
(* returned, which is after the emit.  What the command line run does to   *)
(* the files is not part of this specification: only how it ends.          *)
(***************************************************************************)
\* The text of a field, stripped: empty or not.
FieldTexts == {"", "in.csv"}

\* _build_argv (263-291), for the fields the user has to fill.
GuiArgvs ==
  {<<"validate", "--mode", "csv", "--input-csv", input_csv, "--text-column", "body",
     "--changelog-json", changelog_json, "--input-encoding", "auto">> :
     input_csv \in FieldTexts, changelog_json \in FieldTexts}

\* How cli_main(argv) ends (lines 36-40): it returns a code, or raises
\* SystemExit (argparse, the checks of the runs), or any other exception.
CliOutcomes == {"returned", "SystemExit", "Exception"}

\* RunWorker(argv) once started.
RunWorker(argv) == [argv |-> argv, state |-> "running", emitted |-> <<>>]

\* QThread.isRunning(): started, and run has not returned.
IsRunning(worker) == worker.state # "finished"

InitGui ==
  /\ FunIdle
  /\ CliIdle
  /\ GuiIdle

\* MainWindow._on_run (293-303), the slot of the Run button's clicked: a
\* click reaches it only when the button is enabled and no modal message box
\* covers the window.
OnRun ==
  /\ run_button
  /\ dialogs = <<>>
  /\ Len(workers) < MaxRuns
  /\ \E argv \in GuiArgvs :
       IF \E i \in 1..Len(argv) : argv[i] = ""
       THEN /\ dialogs' = Append(dialogs, "Missing Input")
            /\ UNCHANGED <<run_button, workers>>
       ELSE /\ run_button' = FALSE
            /\ workers' = Append(workers, RunWorker(argv))
            /\ UNCHANGED dialogs
  /\ UNCHANGED <<posted, funVars, cliVars>>

\* RunWorker.run (34-43) up to its emit: finished_ok when cli_main returned,
\* failed when it raised (except BaseException).
WorkerRun ==
  /\ \E w \in 1..Len(workers) : \E outcome \in CliOutcomes :
       LET signal == IF outcome = "returned" THEN "finished_ok" ELSE "failed"
       IN  /\ workers[w].state = "running"
           /\ workers' = [workers EXCEPT ![w].state = "emitted",
                                          ![w].emitted = Append(@, signal)]
           /\ posted' = Append(posted, [signal |-> signal, worker |-> w])
  /\ UNCHANGED <<run_button, dialogs, funVars, cliVars>>

\* RunWorker.run returns and the thread ends.
WorkerExit ==
  /\ \E w \in 1..Len(workers) :
       /\ workers[w].state = "emitted"
       /\ workers' = [workers EXCEPT ![w].state = "finished"]
  /\ UNCHANGED <<run_button, posted, dialogs, funVars, cliVars>>

\* MainWindow._on_done (305-308), called for a queued finished_ok.
OnDone ==
  /\ posted # <<>>
  /\ Head(posted).signal = "finished_ok"
  /\ posted' = Tail(posted)
  /\ run_button' = TRUE
  /\ UNCHANGED <<workers, dialogs, funVars, cliVars>>

\* MainWindow._on_fail (310-313), called for a queued failed.
OnFail ==
  /\ posted # <<>>
  /\ Head(posted).signal = "failed"
  /\ posted' = Tail(posted)
  /\ run_button' = TRUE
  /\ dialogs' = Append(dialogs, "Run Failed")
  /\ UNCHANGED <<workers, funVars, cliVars>>

\* The user closes the message box on top.
CloseDialog ==
  /\ dialogs # <<>>
  /\ dialogs' = SubSeq(dialogs, 1, Len(dialogs) - 1)
  /\ UNCHANGED <<run_button, workers, posted, funVars, cliVars>>

NextGui == OnRun \/ WorkerRun \/ WorkerExit \/ OnDone \/ OnFail \/ CloseDialog

SpecGui == InitGui /\ [][NextGui]_vars

(***************************************************************************)
(* Properties.                                                             *)
(***************************************************************************)

\* C1 -- Replay round trip: for every raw text, every configuration and
\* every behaviour of the dictionary, apply_edits(t, clean(t).edits) returns
\* exactly clean(t).cleaned_text, and does not raise.
C1_ReplayRoundTrip ==
  pc = "replayed" =>
    /\ ret.result.val.edits = build_edits(args.raw_text, ret.result.val.cleaned_text)
    /\ ret.replay = Returned(ret.result.val.cleaned_text)

\* A replay of two or more edits that hold a spellcheck substitution.
C1_Witness ==
  /\ pc = "replayed"
  /\ Len(ret.result.val.edits) >= 2
  /\ ret.result.val.summary.top_replacements # <<>>
  /\ ret.replay.err = "none"
  /\ ret.replay.val # args.raw_text

\* The cursor when the i-th edit is processed: 0, then the end of the edit
\* before it.
CursorAt(edits, i) == IF i = 1 THEN 0 ELSE edits[i - 1].end

\* C2 -- Overlap rejection: if some edit's start is less than the cursor at
\* the time it is processed, apply_edits raises and returns no text.
C2_OverlapRejected ==
  (pc = "applied" /\ \E i \in 1..Len(args.edits) : args.edits[i].start < CursorAt(args.edits, i))
    => ret = Raised("ValueError")

\* The documented overlapping edits [{0,5,"x"},{3,8,"y"}] are rejected.
C2_Witness ==
  /\ pc = "applied"
  /\ args.edits = OverlapExample
  /\ args.original # <<>>
  /\ ret.err = "ValueError"

\* C3 -- The edits build_edits returns are in bounds, 0 <= start <= end <=
\* len(original), and in ascending order without overlap: each start is at
\* least the end of the edit before it.
C3_EditsOrdered ==
  pc = "built" =>
    /\ \A i \in 1..Len(ret) :
         0 <= ret[i].start /\ ret[i].start <= ret[i].end /\ ret[i].end <= Len(args.original)
    /\ \A i \in 1..(Len(ret) - 1) : ret[i + 1].start >= ret[i].end

\* build_edits returned two edits, one of them an insertion or replacement.
C3_Witness ==
  /\ pc = "built"
  /\ Len(ret) >= 2
  /\ \E i \in 1..Len(ret) : ret[i].replacement # <<>>
  /\ Len(args.cleaned) > Len(args.original)

\* The items of the changelog, and whether the current input of one differs
\* from the input recorded for it.
Items == changelog[1].items

Present(item) == item.item_id \in DOMAIN input

Drifted(item) == Present(item) /\ md5_text(input[item.item_id]) # item.input_md5

\* C4 -- Strict reproduction: a strict reproduce run over an input that holds
\* an item whose fingerprint differs from the recorded one ends with an error
\* and writes no output at all; a run that is not strict applies the edits
\* all the same.
C4_StrictRefuses ==
  (lastRun.cmd = "reproduce" /\ \E i \in 1..Len(Items) : Drifted(Items[i])) =>
    /\ lastRun.strict_md5 => (lastRun.code # 0 /\ lastRun.written = {})
    /\ (~lastRun.strict_md5 /\ \A i \in 1..Len(Items) : Present(Items[i])) =>
         /\ lastRun.code = 0
         /\ \A i \in 1..Len(Items) :
              lastRun.cleaned[Items[i].item_id] =
                apply_edits(input[Items[i].item_id], Items[i].edits).val

\* The input is as the clean run read it: the same rows or files, each with
\* the fingerprint recorded for it.
Unchanged ==
  /\ DOMAIN input = {Items[i].item_id : i \in 1..Len(Items)}
  /\ \A i \in 1..Len(Items) : ~Drifted(Items[i])

\* C5 -- Clean-then-reproduce round trip: a reproduce run over the unchanged
\* input succeeds, computes for every item the cleaned text of the clean run
\* (its fingerprint is the recorded output fingerprint), and writes what the
\* clean run wrote.
C5_ReproduceRoundTrip ==
  (lastRun.cmd = "reproduce" /\ Unchanged) =>
    /\ lastRun.code = 0
    /\ \A i \in 1..Len(Items) :
         md5_text(lastRun.cleaned[Items[i].item_id]) = Items[i].output_md5
    /\ reproOut = cleanOut

\* A reproduce run over two unchanged items, both changed by the clean run,
\* one of them by a spellcheck substitution.
C5_Witness ==
  /\ lastRun.cmd = "reproduce"
  /\ Unchanged
  /\ Len(Items) = 2
  /\ \A i \in 1..2 : Items[i].edits # <<>>
  /\ \E i \in 1..2 : Items[i].summary.top_replacements # <<>>
  /\ reproOut = cleanOut
  /\ reproOut # NoFile

\* The recorded items whose current input is missing or has another
\* fingerprint than the recorded one.
Failing == {i \in 1..Len(Items) : ~Present(Items[i]) \/ Drifted(Items[i])}

\* C6 -- Drift detection: validate exits with 0 only if every recorded item
\* has a current input with the recorded fingerprint; otherwise it exits
\* with 1, having checked every item.
C6_ValidateDetectsDrift ==
  lastRun.cmd = "validate" =>
    /\ lastRun.code = (IF Failing = {} THEN 0 ELSE 1)
    /\ lastRun.mismatches = Cardinality(Failing)

\* C7 -- Normalizer idempotence: normalizing a normalized text with the same
\* target charset returns it unchanged.
C7_Idempotent == pc = "renormalized" => ret[2] = ret[1]

\* The case pattern of a token as the claim reads it: the letters of a token
\* are ASCII letters, the rest apostrophes.
AllUppercase(token) == \A i \in 1..Len(token) : ~IsLowerCh(token[i])

TitleCase(token) ==
  IsUpperCh(token[1]) /\ \A i \in 2..Len(token) : ~IsUpperCh(token[i])

AllLowercase(token) == \A i \in 1..Len(token) : ~IsUpperCh(token[i])

CaseTransfer(token, suggestion) ==
  IF AllUppercase(token) THEN str_upper(suggestion)
  ELSE IF TitleCase(token) THEN str_capitalize(suggestion)
  ELSE IF AllLowercase(token) THEN str_lower(suggestion)
  ELSE suggestion

\* C8 -- Case transfer: the candidate is the suggestion uppercased for an
\* all-uppercase token, title-cased for a token whose first letter is upper
\* and whose other letters are lower (apostrophes included), lowercased for
\* an all-lowercase token, and the suggestion as returned otherwise.
C8_CaseTransfer ==
  pc = "match_case" => ret = CaseTransfer(args.source, args.suggestion)

\* The classic edit distance: insertion, deletion, substitution cost 1 each.
RECURSIVE Levenshtein(_, _)
Levenshtein(a, b) ==
  IF a = <<>> THEN Len(b)
  ELSE IF b = <<>> THEN Len(a)
  ELSE IF Head(a) = Head(b) THEN Levenshtein(Tail(a), Tail(b))
  ELSE 1 + Min3(Levenshtein(Tail(a), b), Levenshtein(a, Tail(b)),
                Levenshtein(Tail(a), Tail(b)))

\* The text the spell corrector must produce from the normalized text: each
\* token, in place, replaced by its case-transferred first suggestion when the
\* dictionary rejects it, suggests something, and the candidate is within the
\* maximum distance of the token, both lowercased; else the token itself.
GatedToken(token, answer, max) ==
  LET candidate == match_case(token, answer.suggestions[1])
  IN  IF /\ ~answer.valid
         /\ answer.suggestions # <<>>
         /\ Levenshtein(str_lower(token), str_lower(candidate)) <= max
      THEN candidate ELSE token

RECURSIVE GatedText(_, _, _, _, _)
GatedText(normalized, spans, answers, max, k) ==
  LET from == IF k = 1 THEN 0 ELSE spans[k - 1][2]
  IN  IF k > Len(spans) THEN SubSeq(normalized, from + 1, Len(normalized))
      ELSE SubSeq(normalized, from + 1, spans[k][1])
             \o GatedToken(SubSeq(normalized, spans[k][1] + 1, spans[k][2]), answers[k], max)
             \o GatedText(normalized, spans, answers, max, k + 1)

\* C9 -- Distance gate: a token the dictionary rejects and has a suggestion
\* for is replaced by the case-transferred first suggestion if and only if
\* its distance to it, both lowercased, is at most max_suggestion_distance;
\* accepted tokens and tokens without suggestions stay, and no suggestion but
\* the first is used.
C9_DistanceGate ==
  (pc = "cleaned" /\ args.config.spellcheck) =>
    LET normalized == normalize_charset(args.raw_text, args.config.target_charset).val
    IN  ret.result.val.cleaned_text =
          GatedText(normalized, WordSpans(normalized, 0), ret.answers,
                    args.config.max_suggestion_distance, 1)

\* With the maximum at 2, a token is replaced by a first suggestion two edits
\* away, the second suggestion being closer.
C9_Witness ==
  /\ pc = "cleaned"
  /\ args.config.spellcheck
  /\ args.config.max_suggestion_distance = 2
  /\ args.raw_text = <<"t", "t">>
  /\ ret.answers = <<Answer(FALSE, <<<<"e", "e">>, <<"t", "e">>>>)>>
  /\ ret.result.val.cleaned_text = <<"e", "e">>

\* C10 -- _edit_distance is the Levenshtein distance, and a metric: it is
\* symmetric, zero exactly for equal strings, and obeys the triangle
\* inequality, empty strings included.
C10_LevenshteinMetric ==
  pc = "edit_distance" =>
    /\ ret = Levenshtein(args.a, args.b)
    /\ ret = edit_distance(args.b, args.a)
    /\ (ret = 0 <=> args.a = args.b)
    /\ edit_distance(args.a, args.c) <= ret + edit_distance(args.b, args.c)

\* A distance that needs a substitution and an insertion, the third string
\* empty.
C10_Witness ==
  /\ pc = "edit_distance"
  /\ args.a = <<"a", "t">>
  /\ args.b = <<"t", "t", "a">>
  /\ args.c = <<>>
  /\ ret = 2

\* C11 -- In every result of clean(raw_text), changed is true if and only if
\* raw_text differs from cleaned_text, and summary.edit_count is the length
\* of the returned edit list.
C11_ChangedAndEditCount ==
  (pc \in {"cleaned", "replayed"} /\ ret.result.err = "none") =>
    /\ ret.result.val.changed <=> (args.raw_text # ret.result.val.cleaned_text)
    /\ ret.result.val.summary.edit_count = Len(ret.result.val.edits)

\* A text that normalization leaves alone and the spell corrector changes in
\* two places.
C11_Witness ==
  /\ pc = "cleaned"
  /\ args.config.spellcheck
  /\ args.raw_text = <<"t", "e", " ", "e", "t">>
  /\ normalize_charset(args.raw_text, args.config.target_charset).val = args.raw_text
  /\ ret.result.val.changed
  /\ ret.result.val.summary.edit_count = 2

\* The accepted substitutions of a text, in text order, as <<token,
\* replacement>> pairs.
Substitutions(normalized, spans, answers, max) ==
  LET tokens == [k \in 1..Len(spans) |->
                   SubSeq(normalized, spans[k][1] + 1, spans[k][2])]
      pairs == [k \in 1..Len(spans) |->
                  <<tokens[k], GatedToken(tokens[k], answers[k], max)>>]
  IN  SelectSeq(pairs, LAMBDA p : p[1] # p[2])

Occurrences(subs, p) == Cardinality({k \in 1..Len(subs) : subs[k] = p})

FirstAt(subs, p) ==
  CHOOSE k \in 1..Len(subs) : subs[k] = p /\ \A j \in 1..(k - 1) : subs[j] # p

\* Pair p ranks before pair q: more frequent, or as frequent and met first.
RanksBefore(subs, p, q) ==
  \/ Occurrences(subs, p) > Occurrences(subs, q)
  \/ /\ Occurrences(subs, p) = Occurrences(subs, q)
     /\ FirstAt(subs, p) < FirstAt(subs, q)

\* C12 -- top_replacements lists at most 8 distinct (token, replacement)
\* pairs, the best ranked ones, each with the exact number of its accepted
\* spellcheck substitutions in the text, by count descending and, among equal
\* counts, in the order of first encounter; it holds only pairs of accepted
\* substitutions, whatever normalization changed, and is empty when
\* spellcheck is disabled.
C12_TopReplacements ==
  pc = "summarized" =>
    LET normalized == normalize_charset(args.raw_text, args.config.target_charset).val
        subs == IF args.config.spellcheck
                THEN Substitutions(normalized, WordSpans(normalized, 0), ret.answers,
                                   args.config.max_suggestion_distance)
                ELSE <<>>
        pairs == {subs[k] : k \in 1..Len(subs)}
        top == ret.result.val.summary.top_replacements
        listed == {<<top[i].from, top[i].to>> : i \in 1..Len(top)}
    IN  /\ Len(top) <= 8
        /\ Len(top) = Min2(8, Cardinality(pairs))
        /\ listed \subseteq pairs
        /\ \A i \in 1..Len(top) :
             top[i].count = Occurrences(subs, <<top[i].from, top[i].to>>)
        /\ \A i, j \in 1..Len(top) :
             i < j => RanksBefore(subs, <<top[i].from, top[i].to>>,
                                        <<top[j].from, top[j].to>>)
        /\ \A p \in listed : \A q \in pairs \ listed : RanksBefore(subs, p, q)
        /\ ~args.config.spellcheck => top = <<>>

\* Nine distinct pairs in a text whose line endings normalization rewrites:
\* the pair met last was substituted twice and is listed first, and the
\* ninth-ranked pair is left out.
C12_Witness ==
  /\ pc = "summarized"
  /\ args.config.spellcheck
  /\ args.raw_text = SummaryText(9, 9, "\r")
  /\ \A k \in 1..Len(ret.answers) : ~ret.answers[k].valid
  /\ Len(ret.result.val.summary.top_replacements) = 8
  /\ ret.result.val.summary.top_replacements[1] =
       [from |-> SummaryToken(9), to |-> <<"a", "a">>, count |-> 2]
  /\ \A i \in 1..8 :
       ret.result.val.summary.top_replacements[i].from # SummaryToken(8)

\* C13 -- Unsupported charset: normalize_charset raises an error and returns
\* no text for every target charset other than utf-8, latin-1 and ascii,
\* whatever the text, the empty text included; for these three it never
\* raises.
C13_UnsupportedCharset ==
  pc \in {"normalized", "renormalized"} =>
    /\ args.target_charset \notin {"utf-8", "latin-1", "ascii"} =>
         (ret[1].err # "none" /\ ret[1] = Raised(ret[1].err))
    /\ args.target_charset \in {"utf-8", "latin-1", "ascii"} => ret[1].err = "none"

\* The empty text and a charset name that differs from a recognized one by
\* its case only.
C13_Witness ==
  /\ pc = "normalized"
  /\ args.text = <<>>
  /\ args.target_charset = "UTF-8"
  /\ ret[1].err = "ValueError"

\* C14 -- Output ordering: a clean run emits exactly one changelog item per
\* input item, in input traversal order.  In csv mode the k-th item has row
\* index k and the k-th output row carries the cleaned text of the k-th input
\* row; in dir mode the items come in sorted path order, each identified by
\* its relative path and made from the file of that path.
C14_OutputOrdering ==
  [][(changelog = NoFile /\ changelog' # NoFile) =>
       LET items == changelog'[1].items
       IN  /\ Len(items) = Cardinality(DOMAIN input)
           /\ {items[i].item_id : i \in 1..Len(items)} = DOMAIN input
           /\ \A i, j \in 1..Len(items) : i < j => items[i].item_id < items[j].item_id
           /\ \A i \in 1..Len(items) :
                items[i].input_md5 = md5_text(input[items[i].item_id])
           /\ mode = "csv" =>
                /\ DOMAIN cleanOut'[1] = 1..Len(input)
                /\ \A k \in 1..Len(input) :
                     /\ items[k].item_id = k
                     /\ md5_text(cleanOut'[1][k]) = items[k].output_md5
                     /\ cleanOut'[1][k] = apply_edits(input[k], items[k].edits).val
           /\ (mode = "dir" /\ DOMAIN input # {}) =>
                /\ DOMAIN cleanOut'[1] = DOMAIN input
                /\ \A i \in 1..Len(items) :
                     cleanOut'[1][items[i].item_id] =
                       FileWritten(apply_edits(input[items[i].item_id], items[i].edits).val,
                                   changelog'[1].settings.target_charset)]_vars

\* A clean run over two rows of different texts, both changed by the run,
\* the input as the run found it.
C14_Witness ==
  /\ lastRun.cmd = "clean"
  /\ mode = "csv"
  /\ Len(input) = 2
  /\ Len(changelog[1].items) = 2
  /\ changelog[1].items[1].item_id = 1
  /\ changelog[1].items[2].item_id = 2
  /\ \A k \in 1..2 : changelog[1].items[k].input_md5 = md5_text(input[k])
  /\ \A k \in 1..2 : changelog[1].items[k].changed
  /\ cleanOut[1][1] # cleanOut[1][2]

\* The word tokens of a text, as the set of their spans <<start, end>>: a
\* letter, then letters or apostrophes up to the end of the run of such
\* characters, two characters at least, the letter being the first letter of
\* its run.
TokenSpans(s) ==
  {sp \in (0..Len(s)) \X (0..Len(s)) :
     /\ sp[1] + 2 <= sp[2]
     /\ s[sp[1] + 1] \in AsciiLetters
     /\ \A i \in (sp[1] + 1)..sp[2] : s[i] \in WordChars
     /\ sp[2] < Len(s) => s[sp[2] + 1] \notin WordChars
     /\ \A q \in 1..sp[1] :
          (\A i \in q..sp[1] : s[i] \in WordChars) => s[q] = Apostrophe}

\* The spans of a set from left to right.
RECURSIVE LeftToRight(_)
LeftToRight(S) ==
  IF S = {} THEN <<>>
  ELSE LET first == CHOOSE sp \in S : \A other \in S : sp[1] <= other[1]
       IN  <<first>> \o LeftToRight(S \ {first})

\* The text with the k-th span and those after it replaced by texts[k], ...,
\* and everything between and after the spans copied.
RECURSIVE Framed(_, _, _, _)
Framed(normalized, spans, texts, k) ==
  LET from == IF k = 1 THEN 0 ELSE spans[k - 1][2]
  IN  IF k > Len(spans) THEN SubSeq(normalized, from + 1, Len(normalized))
      ELSE SubSeq(normalized, from + 1, spans[k][1]) \o texts[k]
             \o Framed(normalized, spans, texts, k + 1)

\* C15 -- Spell-corrector frame: the cleaned text is the normalized text
\* with each word token replaced in place by itself or by its replacement
\* (the case-transferred first suggestion); the characters outside the token
\* spans are copied unchanged and in order; with spellcheck disabled the
\* cleaned text is the normalized text.
C15_SpellFrame ==
  pc = "cleaned" =>
    LET normalized == normalize_charset(args.raw_text, args.config.target_charset).val
        cleaned == ret.result.val.cleaned_text
        spans == LeftToRight(TokenSpans(normalized))
        token == [k \in 1..Len(spans) |->
                    SubSeq(normalized, spans[k][1] + 1, spans[k][2])]
    IN  IF ~args.config.spellcheck THEN cleaned = normalized
        ELSE /\ Len(ret.answers) = Len(spans)
             /\ \E replaced \in SUBSET (1..Len(spans)) :
                  /\ \A k \in replaced :
                       ~ret.answers[k].valid /\ ret.answers[k].suggestions # <<>>
                  /\ cleaned =
                       Framed(normalized, spans,
                              [k \in 1..Len(spans) |->
                                 IF k \in replaced
                                 THEN match_case(token[k], ret.answers[k].suggestions[1])
                                 ELSE token[k]], 1)

\* Two tokens around a space: the first is replaced, the second is kept, the
\* space stays between them.
C15_Witness ==
  /\ pc = "cleaned"
  /\ args.config.spellcheck
  /\ args.raw_text = <<"t", "e", " ", "e", "t">>
  /\ ret.result.val.cleaned_text = <<"e", "e", " ", "e", "t">>

\* The newlines and tabs a text has once its line endings are unified: a
\* carriage return counts as a newline unless a newline follows it.
LineBreaksAndTabs(s) ==
  LET marks == [i \in 1..Len(s) |->
                  IF s[i] = "\r" /\ i < Len(s) /\ s[i + 1] = "\n" THEN "skip"
                  ELSE IF s[i] = "\r" THEN "\n" ELSE s[i]]
  IN  SelectSeq(marks, LAMBDA ch : ch \in {"\n", "\t"})

\* The characters a charset can encode.
Encodable(charset) ==
  IF charset = "ascii" THEN AsciiChars
  ELSE IF charset = "latin-1" THEN Latin1Chars
  ELSE NormAlphabet \cup Latin1Chars

\* C16 -- Normalizer postcondition: for a recognized target charset the
\* output has no carriage return and no character of category group C but
\* newline and tab; the newlines and tabs left by line-ending unification are
\* all there, in order; for latin-1 and ascii every output character is
\* encodable in the charset, the output being the utf-8 output less its
\* unencodable characters (narrowing comes last).
C16_NormalizerPostcondition ==
  (pc \in {"normalized", "renormalized"} /\ args.target_charset \in Charsets) =>
    LET out == ret[1].val
    IN  /\ ret[1].err = "none"
        /\ \A i \in 1..Len(out) :
             /\ out[i] # "\r"
             /\ out[i] \in CategoryC => out[i] \in {"\n", "\t"}
             /\ out[i] \in Encodable(args.target_charset)
        /\ SelectSeq(out, LAMBDA ch : ch \in {"\n", "\t"}) = LineBreaksAndTabs(args.text)
        /\ out = SelectSeq(normalize_charset(args.text, "utf-8").val,
                           LAMBDA ch : ch \in Encodable(args.target_charset))

\* A decomposed letter and a carriage return, to latin-1: the letter is
\* composed, then kept by the narrowing, and the line ending is a newline.
C16_Witness ==
  /\ pc = "normalized"
  /\ args.target_charset = "latin-1"
  /\ args.text = <<"e", "U+0301", "\r">>
  /\ ret[1] = Returned(<<"U+00E9", "\n">>)

\* C17 -- Whenever apply_edits returns without error, whatever the edit list,
\* every edit has start <= end <= len(original), no two edits share a
\* position, and the output is the original with each span replaced and every
\* position outside the spans copied exactly once, in order.
C17_EditsPartition ==
  (pc = "applied" /\ ret.err = "none") =>
    LET edits == args.edits
    IN  /\ \A i \in 1..Len(edits) :
             /\ 0 <= edits[i].start
             /\ edits[i].start <= edits[i].end
             /\ edits[i].end <= Len(args.original)
        /\ \A i, j \in 1..Len(edits) : i < j => edits[i].end <= edits[j].start
        /\ ret.val = Framed(args.original,
                            [i \in 1..Len(edits) |-> <<edits[i].start, edits[i].end>>],
                            [i \in 1..Len(edits) |-> edits[i].replacement], 1)

\* C18 -- GUI run protocol: at most one RunWorker is running at any time;
\* the Run button is disabled from the start of a run until the run's worker
\* has emitted finished_ok or failed, and a worker emits exactly one of them,
\* however the command line run ended; a request with an empty required
\* field starts no worker and leaves the button enabled.
C18_RunProtocol ==
  /\ Cardinality({w \in 1..Len(workers) : IsRunning(workers[w])}) <= 1
  /\ \A w \in 1..Len(workers) :
       /\ workers[w].state = "running" => ~run_button
       /\ Len(workers[w].emitted) = (IF workers[w].state = "running" THEN 0 ELSE 1)
       /\ \A i \in 1..Len(workers[w].argv) : workers[w].argv[i] # ""
  /\ (dialogs # <<>> /\ dialogs[Len(dialogs)] = "Missing Input") => run_button

=============================================================================
